---- MODULE Spec2Model ----
(***************************************************************************)
(* Model of merkle_certificate_blockchain.py: the Merkle tree functions,   *)
(* the Block class and the Blockchain ledger (pending pool, mining,        *)
(* persistence to chain.json).                                             *)
(*                                                                         *)
(* Hex digests are modelled as terms: sha256 is an injective constructor   *)
(* over the bytes it hashes (collision-free), and the leading hex          *)
(* characters of a block digest are a fixed function of the hashed block   *)
(* content (HexPrefix).  Python sequences are 0-based; the operators below *)
(* keep 0-based indices and translate at each access.                      *)
(***************************************************************************)
EXTENDS Integers, Sequences, FiniteSets, TLC

VARIABLES
    chain,                     \* Blockchain.chain
    unconfirmed_transactions,  \* Blockchain.unconfirmed_transactions
    chain_file,                \* contents of CHAIN_FILE on disk
    now,                       \* the clock read by time.time(), in ticks
    call,                      \* the last Blockchain call and what it returned
    items,                     \* Merkle harness: the record sequence
    leaf,                      \* proof artifact: p["transaction"]
    proof,                     \* proof artifact: p["proof"]
    root,                      \* proof artifact: p["merkle_root"]
    verdict,                   \* result of verify_merkle_proof
    stage,                     \* Merkle harness position
    tamper                     \* which part of the artifact was altered

vars == <<chain, unconfirmed_transactions, chain_file, now, call,
          items, leaf, proof, root, verdict, stage, tamper>>

ledgerVars == <<chain, unconfirmed_transactions, chain_file, now, call>>
merkleVars == <<items, leaf, proof, root, verdict, stage, tamper>>

----------------------------------------------------------------------------
(* Bounds *)

MaxRecords == 3      \* records held by one ledger (pending + mined)
MaxTime == 2         \* clock ticks
MaxNonce == 3        \* largest nonce a proof-of-work search needs
MaxLeaves == 5       \* longest record sequence given to the Merkle functions
MaxForgedLeaves == 3 \* longest record sequence a made-up proof is tried on
MaxForgedProof == 2  \* longest made-up proof
TicksPerSecond == 2  \* clock resolution: ticks in one second

(* Program constants *)

DIFFICULTY == 3
HexBase == 16

Students == {"S1", "S2"}
Names == {"Alice"}
Courses == {"Math", "Art"}
Grades == {"A"}

----------------------------------------------------------------------------
(* Hashing and canonical encoding *)

HexChars == <<"0", "1", "2", "3", "4", "5", "6", "7",
              "8", "9", "a", "b", "c", "d", "e", "f">>

EmptyBytes == <<>>

sha256(x) == <<"sha256", x>>

\* mutant: only the keys of the mapping are encoded
canonical_keys(obj) == <<"json", DOMAIN obj>>

canonical(obj) == <<"json", obj>>

\* (a + b).encode(): the concatenation of two hex strings
concat(a, b) == <<"cat", a, b>>

RECURSIVE Pow(_, _)
Pow(b, e) == IF e = 0 THEN 1 ELSE b * Pow(b, e - 1)

\* The value of the first n hex characters of the digest of a block object,
\* a fixed function of the hashed content.  Digests with no, some and all
\* of the leading characters "0" occur, and among any MaxNonce + 1
\* consecutive nonces one gives a prefix of zeros only.
PrefixValue(obj, n) ==
    LET W == Pow(HexBase, n)
        salt == (obj.index + obj.timestamp + Len(obj.transactions) + 1)
                    % (MaxNonce + 1)
        d == (salt - obj.nonce) % (MaxNonce + 1)
    IN  IF d = 0 THEN 0 ELSE (Pow(HexBase, d) - 1) % W

\* The first n hex characters of a block digest
HexPrefix(h, n) ==
    LET v == PrefixValue(h[2][2], n)
    IN  [i \in 1..n |-> HexChars[((v \div Pow(HexBase, n - i)) % HexBase) + 1]]

startswith(h, target) == HexPrefix(h, Len(target)) = target

----------------------------------------------------------------------------
(* Merkle tree *)

\* mutant: an odd layer is padded with its first element
PadEven_first(layer) ==
    IF Len(layer) % 2 = 1 THEN Append(layer, layer[1]) ELSE layer

PadEven(layer) ==
    IF Len(layer) % 2 = 1 THEN Append(layer, layer[Len(layer)]) ELSE layer

NextLayer(prev) ==
    [i \in 1..(Len(prev) \div 2) |-> sha256(concat(prev[2 * i - 1], prev[2 * i]))]

RECURSIVE GrowLayers(_)
GrowLayers(layers) ==
    IF Len(layers[Len(layers)]) > 1
    THEN GrowLayers(Append(layers, NextLayer(PadEven(layers[Len(layers)]))))
    ELSE layers

merkle_layers(its) ==
    LET hashed == [i \in 1..Len(its) |-> sha256(canonical(its[i]))]
        leaves == IF hashed = <<>> THEN <<sha256(EmptyBytes)>> ELSE hashed
    IN  GrowLayers(<<leaves>>)

\* mutant: the first leaf is taken instead of the top of the tree
merkle_root_leaf(its) ==
    LET layers == merkle_layers(its)
    IN  layers[1][1]

merkle_root(its) ==
    LET layers == merkle_layers(its)
    IN  layers[Len(layers)][1]

\* idx ^ 1 on Python integers
Xor1(idx) == IF idx % 2 = 0 THEN idx + 1 ELSE idx - 1

\* l[i] on a Python list, for an index Python accepts
PyGet(l, i) == IF i >= 0 THEN l[i + 1] ELSE l[Len(l) + i + 1]

\* mutant: the comparison is reversed
Direction_reversed(sibling_index, idx) ==
    IF sibling_index > idx THEN "L" ELSE "R"

Direction(sibling_index, idx) == IF sibling_index < idx THEN "L" ELSE "R"

RECURSIVE ProofSteps(_, _, _)
ProofSteps(layers, k, idx) ==
    IF k >= Len(layers)
    THEN <<>>
    ELSE LET l == PadEven(layers[k])
             sibling_index == Xor1(idx)
             sibling_hash == PyGet(l, sibling_index)
             direction == Direction(sibling_index, idx)
         IN  <<<<sibling_hash, direction>>>>
                 \o ProofSteps(layers, k + 1, idx \div 2)

merkle_proof(its, index) == ProofSteps(merkle_layers(its), 1, index)

\* l[i] raises IndexError on a Python list
PyIndexError(l, i) == i >= Len(l) \/ i < -Len(l)

\* the loop of merkle_proof reaches an l[sibling_index] that raises
RECURSIVE ProofRaises(_, _, _)
ProofRaises(layers, k, idx) ==
    IF k >= Len(layers)
    THEN FALSE
    ELSE \/ PyIndexError(PadEven(layers[k]), Xor1(idx))
         \/ ProofRaises(layers, k + 1, idx \div 2)

merkle_proof_raises(its, index) == ProofRaises(merkle_layers(its), 1, index)

\* mutant: on side "L" the sibling is hashed with itself
RECURSIVE FoldProof_sibling(_, _)
FoldProof_sibling(h, prf) ==
    IF prf = <<>>
    THEN h
    ELSE LET sibling_hash == prf[1][1]
             direction == prf[1][2]
         IN  FoldProof_sibling(IF direction = "L"
                               THEN sha256(concat(sibling_hash, sibling_hash))
                               ELSE sha256(concat(h, sibling_hash)),
                               Tail(prf))

RECURSIVE FoldProof(_, _)
FoldProof(h, prf) ==
    IF prf = <<>>
    THEN h
    ELSE LET sibling_hash == prf[1][1]
             direction == prf[1][2]
         IN  FoldProof(IF direction = "L"
                       THEN sha256(concat(sibling_hash, h))
                       ELSE sha256(concat(h, sibling_hash)),
                       Tail(prf))

verify_merkle_proof(lf, prf, rt) == FoldProof(sha256(canonical(lf)), prf) = rt

----------------------------------------------------------------------------
(* Block *)

compute_hash(b) ==
    sha256(canonical([index |-> b.index,
                      transactions |-> b.transactions,
                      timestamp |-> b.timestamp,
                      previous_hash |-> b.previous_hash,
                      nonce |-> b.nonce,
                      merkle_root |-> b.merkle_root]))

Block(index, transactions, timestamp, previous_hash, nonce) ==
    LET fields == [index |-> index,
                   transactions |-> transactions,
                   timestamp |-> timestamp,
                   previous_hash |-> previous_hash,
                   nonce |-> nonce,
                   merkle_root |-> merkle_root(transactions)]
    IN  [index |-> fields.index,
         transactions |-> fields.transactions,
         timestamp |-> fields.timestamp,
         previous_hash |-> fields.previous_hash,
         nonce |-> fields.nonce,
         merkle_root |-> fields.merkle_root,
         hash |-> compute_hash(fields)]

to_dict(b) ==
    [index |-> b.index,
     transactions |-> b.transactions,
     timestamp |-> b.timestamp,
     previous_hash |-> b.previous_hash,
     nonce |-> b.nonce,
     merkle_root |-> b.merkle_root,
     hash |-> b.hash]

\* mutant: the stored merkle_root and hash are recomputed, not restored
from_dict_recompute(d) ==
    Block(d.index, d.transactions, d.timestamp, d.previous_hash,
          IF "nonce" \in DOMAIN d THEN d.nonce ELSE 0)

from_dict(d) ==
    LET b == Block(d.index, d.transactions, d.timestamp, d.previous_hash,
                   IF "nonce" \in DOMAIN d THEN d.nonce ELSE 0)
        b1 == [b EXCEPT !.merkle_root =
                   IF "merkle_root" \in DOMAIN d THEN d.merkle_root ELSE @]
    IN  [b1 EXCEPT !.hash =
             IF "hash" \in DOMAIN d THEN d.hash ELSE compute_hash(b1)]

----------------------------------------------------------------------------
(* Blockchain *)

\* time.time() and int(time.time())
time_time == now
int_time == now \div TicksPerSecond

NoFile == [exists |-> FALSE, data |-> <<>>]

\* json.dump([b.to_dict() for b in self.chain], f)
save_chain(ch) == [exists |-> TRUE, data |-> [i \in 1..Len(ch) |-> to_dict(ch[i])]]

\* mutant: the genesis block is given index 1
create_genesis_one ==
    LET g == Block(1, <<>>, time_time, "0", 0)
    IN  <<[g EXCEPT !.hash = compute_hash(g)]>>

create_genesis ==
    LET g == Block(0, <<>>, time_time, "0", 0)
    IN  <<[g EXCEPT !.hash = compute_hash(g)]>>

\* load_chain: the chain it leaves in self.chain
load_chain(file) ==
    IF file.exists
    THEN LET loaded == [i \in 1..Len(file.data) |-> from_dict(file.data[i])]
         IN  IF loaded = <<>> THEN create_genesis ELSE loaded
    ELSE create_genesis

\* load_chain: the file it leaves on disk (create_genesis saves)
load_chain_file(file) ==
    IF file.exists /\ file.data # <<>> THEN file ELSE save_chain(create_genesis)

last_block(ch) == ch[Len(ch)]

\* mutant: the hash is recomputed before the nonce is incremented
RECURSIVE proof_of_work_stale(_, _)
proof_of_work_stale(block, difficulty) ==
    LET target == [i \in 1..difficulty |-> "0"]
    IN  IF startswith(block.hash, target)
        THEN block
        ELSE proof_of_work_stale([block EXCEPT !.hash = compute_hash(block),
                                               !.nonce = @ + 1], difficulty)

\* mutant: the nonce is incremented once before the first test
RECURSIVE proof_of_work_first(_, _, _)
proof_of_work_first(block, difficulty, first) ==
    LET target == [i \in 1..difficulty |-> "0"]
    IN  IF ~first /\ startswith(block.hash, target)
        THEN block
        ELSE LET b1 == [block EXCEPT !.nonce = @ + 1]
             IN  proof_of_work_first([b1 EXCEPT !.hash = compute_hash(b1)],
                                     difficulty, FALSE)

proof_of_work_dowhile(block, difficulty) ==
    proof_of_work_first(block, difficulty, TRUE)

RECURSIVE proof_of_work(_, _)
proof_of_work(block, difficulty) ==
    LET target == [i \in 1..difficulty |-> "0"]
    IN  IF startswith(block.hash, target)
        THEN block
        ELSE LET b1 == [block EXCEPT !.nonce = @ + 1]
             IN  proof_of_work([b1 EXCEPT !.hash = compute_hash(b1)], difficulty)

\* the number of times the loop body of proof_of_work runs
RECURSIVE pow_increments(_, _)
pow_increments(block, difficulty) ==
    LET target == [i \in 1..difficulty |-> "0"]
    IN  IF startswith(block.hash, target)
        THEN 0
        ELSE LET b1 == [block EXCEPT !.nonce = @ + 1]
             IN  1 + pow_increments([b1 EXCEPT !.hash = compute_hash(b1)],
                                    difficulty)

\* mutant: the candidate is numbered by the length of the chain plus one
NewBlock_len(last, transactions, timestamp) ==
    Block(Len(chain) + 1, transactions, timestamp, last.hash, 0)

\* mutant: the candidate is linked to the Merkle root of the last block
NewBlock_root(last, transactions, timestamp) ==
    Block(last.index + 1, transactions, timestamp, last.merkle_root, 0)

\* mutant: the candidate takes the index of the last block
NewBlock_index(last, transactions, timestamp) ==
    Block(last.index, transactions, timestamp, last.hash, 0)

\* the candidate block built by mine
NewBlock(last, transactions, timestamp) ==
    Block(last.index + 1, transactions, timestamp, last.hash, 0)

\* mutant: the new block overwrites the last block
AppendBlock_replace(ch, block) == [ch EXCEPT ![Len(ch)] = block]

\* self.chain.append(new_block)
AppendBlock(ch, block) == Append(ch, block)

\* mutant: mine never reports an empty pool
NothingToMine_never(pool) == FALSE

\* not self.unconfirmed_transactions
NothingToMine(pool) == pool = <<>>

\* mutant: the scan also covers the records of the mined blocks
IsDuplicate_mined(pool, student_id, course) ==
    \/ \E i \in 1..Len(pool) :
           /\ pool[i].student_id = student_id
           /\ pool[i].course = course
    \/ \E k \in 1..Len(chain) : \E i \in 1..Len(chain[k].transactions) :
           /\ chain[k].transactions[i].student_id = student_id
           /\ chain[k].transactions[i].course = course

\* mutant: the scan stops after the first pending record
IsDuplicate_first(pool, student_id, course) ==
    /\ pool # <<>>
    /\ pool[1].student_id = student_id
    /\ pool[1].course = course

\* mutant: only the student_id is compared
IsDuplicate_student(pool, student_id, course) ==
    \E i \in 1..Len(pool) : pool[i].student_id = student_id

\* the duplicate scan of add_transaction
IsDuplicate(pool, student_id, course) ==
    \E i \in 1..Len(pool) :
        /\ pool[i].student_id = student_id
        /\ pool[i].course = course

MinedRecords == LET RECURSIVE Sum(_)
                    Sum(k) == IF k = 0 THEN 0
                              ELSE Len(chain[k].transactions) + Sum(k - 1)
                IN  Sum(Len(chain))

Returned(op, args, ret, blk) == [op |-> op, args |-> args, ret |-> ret, blk |-> blk]

\* mutant: construction leaves the pending pool as it is
Blockchain_init_keep ==
    /\ chain' = load_chain(chain_file)
    /\ chain_file' = load_chain_file(chain_file)
    /\ call' = Returned("__init__", <<>>, TRUE, <<>>)
    /\ UNCHANGED <<now, unconfirmed_transactions>>

Blockchain_init ==
    /\ unconfirmed_transactions' = <<>>
    /\ chain' = load_chain(chain_file)
    /\ chain_file' = load_chain_file(chain_file)
    /\ call' = Returned("__init__", <<>>, TRUE, <<>>)
    /\ UNCHANGED now

add_transaction(student_id, name, course, grade) ==
    LET tx == [student_id |-> student_id,
               name |-> name,
               course |-> course,
               grade |-> grade,
               issued_at |-> int_time]
        dup == IsDuplicate(unconfirmed_transactions, student_id, course)
    IN  /\ IF dup
           THEN /\ call' = Returned("add_transaction",
                                    <<student_id, name, course, grade>>, FALSE, <<>>)
                /\ UNCHANGED unconfirmed_transactions
           ELSE /\ Len(unconfirmed_transactions) + MinedRecords < MaxRecords
                /\ unconfirmed_transactions' = Append(unconfirmed_transactions, tx)
                /\ call' = Returned("add_transaction",
                                    <<student_id, name, course, grade>>, TRUE, <<>>)
        /\ UNCHANGED <<chain, chain_file, now>>

mine ==
    IF NothingToMine(unconfirmed_transactions)
    THEN /\ call' = Returned("mine", <<>>, FALSE, <<>>)
         /\ UNCHANGED <<chain, unconfirmed_transactions, chain_file, now>>
    ELSE LET last == last_block(chain)
             new_block == proof_of_work(
                              NewBlock(last, unconfirmed_transactions, time_time),
                              DIFFICULTY)
         IN  /\ chain' = AppendBlock(chain, new_block)
             /\ unconfirmed_transactions' = <<>>
             /\ chain_file' = save_chain(chain')
             /\ call' = Returned("mine", <<>>, TRUE, <<new_block>>)
             /\ UNCHANGED now

\* position (0-based) of the first record of transactions with the pair,
\* scanning from position i; -1 when there is none
RECURSIVE FirstMatch(_, _, _, _)
FirstMatch(transactions, i, student_id, course) ==
    IF i >= Len(transactions)
    THEN -1
    ELSE IF /\ transactions[i + 1].student_id = student_id
            /\ transactions[i + 1].course = course
         THEN i
         ELSE FirstMatch(transactions, i + 1, student_id, course)

\* mutant: the scan goes on to the last block that matches
RECURSIVE ScanBlocks_last(_, _, _, _)
ScanBlocks_last(ch, k, student_id, course) ==
    IF k > Len(ch)
    THEN <<-1, -1>>
    ELSE LET later == ScanBlocks_last(ch, k + 1, student_id, course)
             i == FirstMatch(ch[k].transactions, 0, student_id, course)
         IN  IF later # <<-1, -1>> THEN later
             ELSE IF i >= 0 THEN <<ch[k].index, i>> ELSE <<-1, -1>>

\* the outer loop of find_certificate_location, from block position k
RECURSIVE ScanBlocks(_, _, _, _)
ScanBlocks(ch, k, student_id, course) ==
    IF k > Len(ch)
    THEN <<-1, -1>>
    ELSE LET i == FirstMatch(ch[k].transactions, 0, student_id, course)
         IN  IF i >= 0
             THEN <<ch[k].index, i>>
             ELSE ScanBlocks(ch, k + 1, student_id, course)

find_certificate_location(ch, student_id, course) ==
    ScanBlocks(ch, 1, student_id, course)

\* get_block_by_index: <<b>> for the first block with that index, <<>> for None
RECURSIVE BlockScan(_, _, _)
BlockScan(ch, k, index) ==
    IF k > Len(ch)
    THEN <<>>
    ELSE IF ch[k].index = index THEN <<ch[k]>> ELSE BlockScan(ch, k + 1, index)

get_block_by_index(ch, index) == BlockScan(ch, 1, index)

\* the proof artifact of menu choice 4
proof_obj(block, tx_index) ==
    [block_index |-> block.index,
     tx_index |-> tx_index,
     transaction |-> block.transactions[tx_index + 1],
     merkle_root |-> block.merkle_root,
     proof |-> merkle_proof(block.transactions, tx_index)]

\* a lookup: it returns the location and changes nothing
Locate ==
    \E s \in Students, c \in Courses :
        /\ call' = Returned("find_certificate_location", <<s, c>>,
                            find_certificate_location(chain, s, c), <<>>)
        /\ UNCHANGED <<chain, unconfirmed_transactions, chain_file, now>>

\* the clock advances between calls
Tick ==
    /\ now < MaxTime
    /\ now' = now + 1
    /\ UNCHANGED <<chain, unconfirmed_transactions, chain_file, call>>

Submit ==
    \E s \in Students, n \in Names, c \in Courses, g \in Grades :
        add_transaction(s, n, c, g)

MerkleIdle ==
    /\ items = <<>>
    /\ leaf = [student_id |-> "", name |-> "", course |-> "", grade |-> "",
               issued_at |-> 0]
    /\ proof = <<>>
    /\ root = sha256(EmptyBytes)
    /\ verdict = FALSE
    /\ stage = "idle"
    /\ tamper = "none"

\* the state after Blockchain() is constructed over a missing or empty store,
\* one tick before the clock reaches a full second
Init ==
    /\ now = TicksPerSecond - 1
    /\ \E file \in {NoFile, [exists |-> TRUE, data |-> <<>>]} :
          /\ chain = load_chain(file)
          /\ chain_file = load_chain_file(file)
    /\ unconfirmed_transactions = <<>>
    /\ call = Returned("__init__", <<>>, TRUE, <<>>)
    /\ MerkleIdle

Next ==
    \/ Submit /\ UNCHANGED merkleVars
    \/ mine /\ UNCHANGED merkleVars
    \/ Blockchain_init /\ UNCHANGED merkleVars
    \/ Tick /\ UNCHANGED merkleVars

Spec == Init /\ [][Next]_vars

\* the ledger with certificate lookups (menu choice 4) between the calls
NextLookup ==
    \/ Submit /\ UNCHANGED merkleVars
    \/ mine /\ UNCHANGED merkleVars
    \/ Blockchain_init /\ UNCHANGED merkleVars
    \/ Tick /\ UNCHANGED merkleVars
    \/ Locate /\ UNCHANGED merkleVars

SpecLookup == Init /\ [][NextLookup]_vars

----------------------------------------------------------------------------
(* The Merkle functions applied to bounded inputs.  A proof is generated   *)
(* for one leaf of a record sequence (menu choice 4), the proof artifact   *)
(* may be altered while it is outside the program, and it is verified      *)
(* (menu choice 5).                                                        *)

Record(student_id, name, course, grade, issued_at) ==
    [student_id |-> student_id, name |-> name, course |-> course,
     grade |-> grade, issued_at |-> issued_at]

MerkleRecords == {Record("S1", "Alice", "Math", "A", 0),
                  Record("S2", "Bob", "Math", "B", 0)}

\* values an altered record field may take
FieldValues ==
    [student_id |-> {"S1", "S2"},
     name |-> {"Alice", "Bob"},
     course |-> {"Math", "Art"},
     grade |-> {"A", "B"},
     issued_at |-> {0, 1}]

RecordSeqs == UNION {[1..n -> MerkleRecords] : n \in 1..MaxLeaves}

\* digests an altered proof entry or root may take
OtherDigests ==
    {sha256(EmptyBytes)}
        \cup {sha256(canonical(r)) : r \in MerkleRecords}
        \cup {sha256(concat(sha256(canonical(r)), sha256(canonical(r)))) :
                 r \in MerkleRecords}
        \cup {root}
        \cup {proof[k][1] : k \in 1..Len(proof)}

GenerateProof(index) ==
    /\ stage = "input"
    /\ leaf' = items[index + 1]
    /\ proof' = merkle_proof(items, index)
    /\ root' = merkle_root(items)
    /\ stage' = "proved"
    /\ UNCHANGED <<items, verdict, tamper>>

TamperLeaf ==
    /\ stage = "proved" /\ tamper = "none"
    /\ \E f \in DOMAIN FieldValues :
          \E v \in FieldValues[f] \ {leaf[f]} :
              leaf' = [leaf EXCEPT ![f] = v]
    /\ tamper' = "leaf"
    /\ UNCHANGED <<items, proof, root, verdict, stage>>

TamperSibling ==
    /\ stage = "proved" /\ tamper = "none"
    /\ \E k \in 1..Len(proof) :
          \E d \in OtherDigests \ {proof[k][1]} :
              proof' = [proof EXCEPT ![k] = <<d, proof[k][2]>>]
    /\ tamper' = "sibling"
    /\ UNCHANGED <<items, leaf, root, verdict, stage>>

TamperRoot ==
    /\ stage = "proved" /\ tamper = "none"
    /\ \E d \in OtherDigests \ {root} : root' = d
    /\ tamper' = "root"
    /\ UNCHANGED <<items, leaf, proof, verdict, stage>>

VerifyProof ==
    /\ stage = "proved"
    /\ verdict' = verify_merkle_proof(leaf, proof, root)
    /\ stage' = "verified"
    /\ UNCHANGED <<items, leaf, proof, root, tamper>>

\* the caller pads an odd-length sequence itself: records + [records[-1]]
DuplicateLast ==
    /\ stage = "proved" /\ tamper = "none"
    /\ Len(items) % 2 = 1
    /\ items' = Append(items, items[Len(items)])
    /\ stage' = "padded"
    /\ UNCHANGED <<leaf, proof, root, verdict, tamper>>

\* merkle_proof called with an index outside 0..len(items)-1: it either
\* raises IndexError or returns a proof
RequestInvalidProof(index) ==
    /\ stage = "input"
    /\ index < 0 \/ index >= Len(items)
    /\ IF merkle_proof_raises(items, index)
       THEN /\ stage' = "raised"
            /\ UNCHANGED proof
       ELSE /\ stage' = "returned"
            /\ proof' = merkle_proof(items, index)
    /\ UNCHANGED <<items, leaf, root, verdict, tamper>>

\* records a verifier may be handed: those of the sequences and one more
ForgedLeaves == MerkleRecords \cup {Record("S1", "Alice", "Art", "A", 0)}

\* digests a made-up proof may use: every digest of the tree, the digest
\* of every record, and the digest of the empty bytes
ForgedDigests ==
    LET layers == merkle_layers(items)
    IN  UNION {{layers[k][i] : i \in 1..Len(layers[k])} : k \in 1..Len(layers)}
            \cup {sha256(canonical(r)) : r \in ForgedLeaves}
            \cup {sha256(EmptyBytes)}

ForgedProofs ==
    UNION {[1..n -> ForgedDigests \X {"L", "R"}] : n \in 0..MaxForgedProof}

\* a verifier is handed any leaf and any proof, with the root of items
VerifyForged ==
    /\ stage = "input"
    /\ Len(items) <= MaxForgedLeaves
    /\ \E lf \in ForgedLeaves, prf \in ForgedProofs :
          /\ leaf' = lf
          /\ proof' = prf
          /\ root' = merkle_root(items)
          /\ verdict' = verify_merkle_proof(lf, prf, merkle_root(items))
    /\ stage' = "forged"
    /\ UNCHANGED <<items, tamper>>

InitMerkle ==
    /\ now = 0
    /\ chain = load_chain(NoFile)
    /\ chain_file = load_chain_file(NoFile)
    /\ unconfirmed_transactions = <<>>
    /\ call = Returned("__init__", <<>>, TRUE, <<>>)
    /\ items \in RecordSeqs
    /\ leaf = items[1]
    /\ proof = <<>>
    /\ root = sha256(EmptyBytes)
    /\ verdict = FALSE
    /\ stage = "input"
    /\ tamper = "none"

NextMerkle ==
    \/ (\E index \in 0..(Len(items) - 1) : GenerateProof(index))
           /\ UNCHANGED ledgerVars
    \/ TamperLeaf /\ UNCHANGED ledgerVars
    \/ TamperSibling /\ UNCHANGED ledgerVars
    \/ TamperRoot /\ UNCHANGED ledgerVars
    \/ VerifyProof /\ UNCHANGED ledgerVars
    \/ DuplicateLast /\ UNCHANGED ledgerVars
    \/ (\E index \in (0 - MaxLeaves - 2)..(MaxLeaves + 2) :
            RequestInvalidProof(index)) /\ UNCHANGED ledgerVars
    \/ VerifyForged /\ UNCHANGED ledgerVars

SpecMerkle == InitMerkle /\ [][NextMerkle]_vars

----------------------------------------------------------------------------
(* Construction over a store found on disk.  The process starts with       *)
(* chain.json absent, holding an empty list, holding a chain written by    *)
(* save_chain, or holding such a chain edited afterwards; Blockchain() is  *)
(* then constructed, used, and constructed again (process restart).        *)

SampleChain ==
    LET g == Block(0, <<>>, 0, "0", 0)
        b == proof_of_work(NewBlock(g, <<Record("S1", "Alice", "Math", "A", 0)>>, 0),
                           DIFFICULTY)
    IN  <<g, b>>

EmptyStore == [exists |-> TRUE, data |-> <<>>]

SavedStore == save_chain(SampleChain)

\* the saved chain with a grade edited in the file: the stored hash and
\* merkle_root no longer match the stored transactions
EditedStore ==
    [exists |-> TRUE,
     data |-> [SavedStore.data EXCEPT
                  ![2].transactions = <<Record("S1", "Alice", "Math", "B", 0)>>]]

StoreSamples == {NoFile, EmptyStore, SavedStore, EditedStore}

Constructed == call.op # "boot"

InitLoad ==
    /\ now = TicksPerSecond - 1
    /\ chain_file \in StoreSamples
    /\ chain = <<>>
    /\ unconfirmed_transactions = <<>>
    /\ call = Returned("boot", <<>>, FALSE, <<>>)
    /\ MerkleIdle

NextLoad ==
    \/ Blockchain_init /\ UNCHANGED merkleVars
    \/ Constructed /\ Submit /\ UNCHANGED merkleVars
    \/ Constructed /\ mine /\ UNCHANGED merkleVars
    \/ Tick /\ UNCHANGED merkleVars

SpecLoad == InitLoad /\ [][NextLoad]_vars

----------------------------------------------------------------------------
(* Merkle claims, checked under SpecMerkle *)

\* C1: the proof generated for any valid index of any non-empty record
\* sequence verifies against that sequence's root (unaltered artifact).
MerkleRoundTrip ==
    (stage = "verified" /\ tamper = "none") => verdict = TRUE

\* a verified proof for the last leaf of a 3-record sequence with equal
\* records, whose first sibling is the padded copy of the leaf itself
MerkleRoundTripWitness ==
    /\ stage = "verified" /\ tamper = "none" /\ verdict = TRUE
    /\ Len(items) = 3 /\ items[1] = items[2]
    /\ Len(proof) = 2
    /\ proof[1] = <<sha256(canonical(leaf)), "R">>
    /\ proof[2][2] = "L"

\* C2: once one field of the leaf, one sibling digest of the proof, or the
\* claimed root has been changed to a different value, verification fails.
TamperSensitivity ==
    (stage = "verified" /\ tamper # "none") => verdict = FALSE

TamperSensitivityWitness ==
    /\ stage = "verified" /\ tamper = "sibling" /\ verdict = FALSE
    /\ Len(proof) = 3
    /\ proof # merkle_proof(items, 0)
    /\ leaf = items[1]

\* C3 as stated: for every odd-length sequence, length 1 included, the root
\* equals the root of the sequence with its last record duplicated.
OddPaddingAnyLength ==
    stage = "padded" => merkle_root(items) = root

\* C3 amended: the same for odd lengths of 3 and more (4 and more records
\* after the duplication).
OddPadding ==
    (stage = "padded" /\ Len(items) >= 4) => merkle_root(items) = root

OddPaddingWitness ==
    /\ stage = "padded" /\ Len(items) = 6
    /\ items[5] # items[4]
    /\ merkle_root(items) = root

----------------------------------------------------------------------------
(* Ledger claims, checked under Spec *)

Target == [i \in 1..DIFFICULTY |-> "0"]

Sealed(b) == startswith(b.hash, Target) /\ b.hash = compute_hash(b)

HasPair(transactions, student_id, course) ==
    \E i \in 1..Len(transactions) :
        /\ transactions[i].student_id = student_id
        /\ transactions[i].course = course

BlocksWithPair(ch, student_id, course) ==
    {k \in 1..Len(ch) : HasPair(ch[k].transactions, student_id, course)}

\* C4: the block returned by a successful mine, and every block of the
\* chain with index >= 1, has a hash that starts with DIFFICULTY "0"
\* characters and equals compute_hash over its stored fields.
MiningValidity ==
    /\ (call.op = "mine" /\ call.ret) => Sealed(call.blk[1])
    /\ \A k \in 1..Len(chain) : chain[k].index >= 1 => Sealed(chain[k])

\* two mined blocks found with different nonces, after a genesis block
\* whose hash does not meet the target
MiningValidityWitness ==
    /\ call.op = "mine" /\ call.ret
    /\ Len(chain) = 3
    /\ chain[2].nonce # chain[3].nonce
    /\ chain[3].nonce > 0
    /\ ~startswith(chain[1].hash, Target)

\* C5: every block after the first carries the hash of its predecessor, and
\* the first block carries the literal "0".
ChainLinkage ==
    /\ chain[1].previous_hash = "0"
    /\ \A k \in 2..Len(chain) : chain[k].previous_hash = chain[k - 1].hash

ChainLinkageWitness ==
    /\ Len(chain) = 4
    /\ call.op = "mine" /\ call.ret
    /\ chain[4].previous_hash = chain[3].hash

\* C6: add_transaction returns False and changes neither the pool, the
\* chain nor the store when the (student_id, course) pair is pending;
\* otherwise it returns True, appends exactly the new record to the pool and
\* leaves the chain unchanged.
DuplicateRejection ==
    [][\A s \in Students, n \in Names, c \in Courses, g \in Grades :
          add_transaction(s, n, c, g) =>
              IF HasPair(unconfirmed_transactions, s, c)
              THEN /\ call'.ret = FALSE
                   /\ unconfirmed_transactions' = unconfirmed_transactions
                   /\ chain' = chain
                   /\ chain_file' = chain_file
              ELSE /\ call'.ret = TRUE
                   /\ unconfirmed_transactions' =
                          Append(unconfirmed_transactions,
                                 Record(s, n, c, g, now \div TicksPerSecond))
                   /\ chain' = chain]_vars

\* a rejected submission of a pending pair whose student has another
\* course pending too, on a ledger that has mined a block
DuplicateRejectionWitness ==
    /\ call.op = "add_transaction" /\ call.ret = FALSE
    /\ Len(unconfirmed_transactions) = 2
    /\ HasPair(unconfirmed_transactions, call.args[1], call.args[3])
    /\ unconfirmed_transactions[1].student_id = unconfirmed_transactions[2].student_id
    /\ Len(chain) = 2

\* C7: a pair that is sealed in a block and not pending is accepted again
\* by add_transaction, and mining a pool that holds such a pair appends a
\* further block that contains it.
PendingOnlyDedup ==
    [][/\ \A s \in Students, n \in Names, c \in Courses, g \in Grades :
             (/\ add_transaction(s, n, c, g)
              /\ BlocksWithPair(chain, s, c) # {}
              /\ ~HasPair(unconfirmed_transactions, s, c))
                 => /\ call'.ret = TRUE
                    /\ HasPair(unconfirmed_transactions', s, c)
                    /\ Len(unconfirmed_transactions') =
                           Len(unconfirmed_transactions) + 1
       /\ \A s \in Students, c \in Courses :
             (/\ mine
              /\ BlocksWithPair(chain, s, c) # {}
              /\ HasPair(unconfirmed_transactions, s, c))
                 => /\ call'.ret = TRUE
                    /\ BlocksWithPair(chain', s, c) =
                           BlocksWithPair(chain, s, c) \cup {Len(chain) + 1}]_vars

\* the same pair sealed in two blocks
PendingOnlyDedupWitness ==
    /\ call.op = "mine" /\ call.ret
    /\ \E s \in Students, c \in Courses :
          Cardinality(BlocksWithPair(chain, s, c)) = 2

\* C8: mine on an empty pool returns (False, None) and changes neither the
\* chain, the pool nor the store.
EmptyPoolMine ==
    [][(mine /\ unconfirmed_transactions = <<>>) =>
           /\ call'.ret = FALSE
           /\ call'.blk = <<>>
           /\ chain' = chain
           /\ unconfirmed_transactions' = unconfirmed_transactions
           /\ chain_file' = chain_file]_vars

EmptyPoolMineWitness ==
    /\ call.op = "mine" /\ call.ret = FALSE
    /\ unconfirmed_transactions = <<>>
    /\ Len(chain) = 2
    /\ chain_file = save_chain(chain)

\* C9: a successful mine returns the new block, whose transactions are the
\* pool as it was before the call, whose index is last.index + 1 and whose
\* previous_hash is last.hash; the pool is empty afterwards.
MineConsumesPool ==
    [][(mine /\ unconfirmed_transactions # <<>>) =>
           /\ call'.ret = TRUE
           /\ Len(chain') = Len(chain) + 1
           /\ call'.blk = <<chain'[Len(chain')]>>
           /\ chain'[Len(chain')].transactions = unconfirmed_transactions
           /\ chain'[Len(chain')].index = chain[Len(chain)].index + 1
           /\ chain'[Len(chain')].previous_hash = chain[Len(chain)].hash
           /\ unconfirmed_transactions' = <<>>]_vars

MineConsumesPoolWitness ==
    /\ call.op = "mine" /\ call.ret
    /\ unconfirmed_transactions = <<>>
    /\ Len(chain) = 3
    /\ Len(chain[3].transactions) = 2
    /\ chain[3].transactions[1].course # chain[3].transactions[2].course
    /\ chain[3].index = 2

\* C10: every step leaves the old chain as a prefix of the new one, with
\* each existing block unchanged; the chain grows by one block on a
\* successful mine and by none on any other step.
AppendOnly ==
    [][/\ Len(chain') >= Len(chain)
       /\ \A k \in 1..Len(chain) : chain'[k] = chain[k]
       /\ IF mine /\ unconfirmed_transactions # <<>>
          THEN Len(chain') = Len(chain) + 1
          ELSE Len(chain') = Len(chain)]_vars

AppendOnlyWitness ==
    /\ Len(chain) = 3
    /\ call.op = "add_transaction" /\ call.ret
    /\ unconfirmed_transactions # <<>>

----------------------------------------------------------------------------
(* Further Merkle claims, checked under SpecMerkle *)

\* C11: merkle_proof called with an index outside 0..len(records)-1 fails
\* with an error; it never returns a proof.
InvalidIndexFailsFast == stage # "returned"

\* C19: whatever proof is presented, a leaf that verifies against the
\* root of a record sequence is one of the records of that sequence.
InclusionSoundness ==
    (stage = "forged" /\ verdict) => \E i \in 1..Len(items) : items[i] = leaf

\* a proof that merkle_proof generates for no valid index, and that
\* verifies: the last of three records, proved through its padded copy
InclusionSoundnessWitness ==
    /\ stage = "forged" /\ verdict
    /\ Len(items) = 3
    /\ leaf = items[3]
    /\ items[1] # items[3]
    /\ \A i \in 0..2 : proof # merkle_proof(items, i)

----------------------------------------------------------------------------
(* Further ledger claims, checked under Spec; C12 and C13 under SpecLookup *)

NotFound == <<-1, -1>>

\* C12: every record of every block verifies against the block's stored
\* merkle_root with the proof generated for its index, the stored root is
\* the root of the stored transactions, and the proof artifact built for a
\* certificate that find_certificate_location found verifies.
EndToEndInclusion ==
    /\ \A k \in 1..Len(chain) :
          /\ chain[k].merkle_root = merkle_root(chain[k].transactions)
          /\ \A i \in 0..(Len(chain[k].transactions) - 1) :
                verify_merkle_proof(chain[k].transactions[i + 1],
                                    merkle_proof(chain[k].transactions, i),
                                    chain[k].merkle_root)
    /\ (call.op = "find_certificate_location" /\ call.ret # NotFound) =>
          LET found == get_block_by_index(chain, call.ret[1])
              p == proof_obj(found[1], call.ret[2])
          IN  /\ found # <<>>
              /\ verify_merkle_proof(p.transaction, p.proof, p.merkle_root)

\* a certificate found as the third record of a three-record block
EndToEndInclusionWitness ==
    /\ call.op = "find_certificate_location"
    /\ call.ret = <<1, 2>>
    /\ Len(chain) = 2
    /\ Len(chain[2].transactions) = 3
    /\ Len(merkle_proof(chain[2].transactions, 2)) = 2

\* C13: find_certificate_location returns (b.index, i) for the earliest
\* block, and in it the smallest position, whose record has the pair; it
\* returns (-1, -1) exactly when no block has the pair, whatever is pending;
\* it changes no state.
LookupFirstMatch ==
    [][\A s \in Students, c \in Courses :
          (call' = Returned("find_certificate_location", <<s, c>>,
                            call'.ret, <<>>)
           /\ call'.op = "find_certificate_location"
           /\ call' # call)
          => /\ UNCHANGED <<chain, unconfirmed_transactions, chain_file>>
             /\ IF BlocksWithPair(chain, s, c) = {}
                THEN call'.ret = NotFound
                ELSE LET k == CHOOSE k \in BlocksWithPair(chain, s, c) :
                                 \A j \in BlocksWithPair(chain, s, c) : k <= j
                         tx == chain[k].transactions
                         i == CHOOSE i \in 1..Len(tx) :
                                 /\ tx[i].student_id = s /\ tx[i].course = c
                                 /\ \A j \in 1..(i - 1) :
                                       ~(tx[j].student_id = s /\ tx[j].course = c)
                     IN  call'.ret = <<chain[k].index, i - 1>>]_vars

\* the pair is sealed in two blocks and pending as well; the first block
\* is the one reported
LookupFirstMatchWitness ==
    /\ call.op = "find_certificate_location"
    /\ Cardinality(BlocksWithPair(chain, call.args[1], call.args[2])) = 2
    /\ call.ret = <<1, 0>>

\* a pending pair that no block holds is reported as not found
LookupPendingWitness ==
    /\ call.op = "find_certificate_location"
    /\ call.ret = NotFound
    /\ HasPair(unconfirmed_transactions, call.args[1], call.args[2])

\* C16: chain[k].index = k for every position k (0-based), and
\* get_block_by_index(k) is the block at position k for 0 <= k < N and no
\* block for any other k.
IndicesPositional ==
    /\ \A k \in 1..Len(chain) :
          /\ chain[k].index = k - 1
          /\ get_block_by_index(chain, k - 1) = <<chain[k]>>
    /\ get_block_by_index(chain, Len(chain)) = <<>>
    /\ get_block_by_index(chain, -1) = <<>>

IndicesPositionalWitness ==
    /\ Len(chain) = 4
    /\ chain[4].index = 3
    /\ get_block_by_index(chain, 2) = <<chain[3]>>

\* C17: proof_of_work leaves index, transactions, timestamp, previous_hash
\* and merkle_root of the candidate as they were, and ends with the least
\* nonce n >= 0 whose block hash starts with the target, after exactly n
\* increments from nonce 0.
LeastNonce ==
    [][(mine /\ unconfirmed_transactions # <<>>) =>
          LET last == chain[Len(chain)]
              b == chain'[Len(chain')]
              cand == Block(last.index + 1, unconfirmed_transactions, now,
                            last.hash, 0)
          IN  /\ b.index = last.index + 1
              /\ b.transactions = unconfirmed_transactions
              /\ b.timestamp = now
              /\ b.previous_hash = last.hash
              /\ b.merkle_root = merkle_root(unconfirmed_transactions)
              /\ b.hash = compute_hash(b)
              /\ startswith(b.hash, Target)
              /\ \A n \in 0..(b.nonce - 1) :
                    ~startswith(compute_hash([b EXCEPT !.nonce = n]), Target)
              /\ pow_increments(cand, DIFFICULTY) = b.nonce]_vars

\* one block sealed at nonce 0 and one after MaxNonce increments
LeastNonceWitness ==
    /\ call.op = "mine" /\ call.ret
    /\ Len(chain) = 3
    /\ chain[2].nonce = 0
    /\ chain[3].nonce = MaxNonce

DistinctPairs(transactions) ==
    \A i, j \in 1..Len(transactions) :
        (/\ transactions[i].student_id = transactions[j].student_id
         /\ transactions[i].course = transactions[j].course) => i = j

\* C18: the pending pool never holds two records with the same
\* (student_id, course) pair, and neither does any block of the chain.
NoDuplicatePairs ==
    /\ DistinctPairs(unconfirmed_transactions)
    /\ \A k \in 1..Len(chain) : DistinctPairs(chain[k].transactions)

\* a block of three records in which a student and a course each occur
\* twice
NoDuplicatePairsWitness ==
    /\ call.op = "mine" /\ call.ret
    /\ Len(chain) = 2
    /\ Len(chain[2].transactions) = 3
    /\ chain[2].transactions[1].student_id = chain[2].transactions[3].student_id
    /\ chain[2].transactions[1].course = chain[2].transactions[2].course

InBlocks(ch, r) ==
    \E k \in 1..Len(ch) : \E i \in 1..Len(ch[k].transactions) :
        ch[k].transactions[i] = r

\* C20: add_transaction never writes the store, and a ledger constructed
\* from the store starts with an empty pending pool: a record that was
\* pending and in no block before the restart is in no block after it.
PendingNotPersisted ==
    [][/\ (\E s \in Students, n \in Names, c \in Courses, g \in Grades :
              add_transaction(s, n, c, g)) => chain_file' = chain_file
       /\ Blockchain_init =>
              /\ unconfirmed_transactions' = <<>>
              /\ \A i \in 1..Len(unconfirmed_transactions) :
                    InBlocks(chain', unconfirmed_transactions[i])
                        => InBlocks(chain, unconfirmed_transactions[i])]_vars

\* an accepted record is pending and the store, which holds a mined
\* block, does not have it
PendingNotPersistedWitness ==
    /\ call.op = "add_transaction" /\ call.ret
    /\ Len(unconfirmed_transactions) = 2
    /\ Len(chain) = 2
    /\ chain_file = save_chain(chain)
    /\ \A i \in 1..2 : ~InBlocks(chain_file.data, unconfirmed_transactions[i])

----------------------------------------------------------------------------
(* Persistence claims, checked under SpecLoad *)

SameFields(b, d) ==
    /\ b.index = d.index
    /\ b.transactions = d.transactions
    /\ b.timestamp = d.timestamp
    /\ b.previous_hash = d.previous_hash
    /\ b.nonce = d.nonce
    /\ b.merkle_root = d.merkle_root
    /\ b.hash = d.hash

\* C14: construction over an absent store, or a store holding an empty
\* list, yields exactly the genesis block (index 0, no transactions,
\* previous_hash "0", nonce 0, merkle_root the digest of the empty bytes,
\* hash = compute_hash) and writes it to the store; over a non-empty store
\* the chain is the stored blocks and no genesis block is made.
GenesisOnLoad ==
    [][Blockchain_init =>
          IF ~chain_file.exists \/ chain_file.data = <<>>
          THEN /\ Len(chain') = 1
               /\ chain'[1].index = 0
               /\ chain'[1].transactions = <<>>
               /\ chain'[1].previous_hash = "0"
               /\ chain'[1].nonce = 0
               /\ chain'[1].merkle_root = sha256(EmptyBytes)
               /\ chain'[1].hash = compute_hash(chain'[1])
               /\ chain_file'.exists
               /\ Len(chain_file'.data) = 1
               /\ SameFields(chain'[1], chain_file'.data[1])
          ELSE /\ Len(chain') = Len(chain_file.data)
               /\ \A k \in 1..Len(chain') : SameFields(chain'[k], chain_file.data[k])
               /\ chain_file' = chain_file]_vars

\* a genesis block made at construction (the stored samples carry
\* timestamp 0), written to the store
GenesisOnLoadWitness ==
    /\ call.op = "__init__"
    /\ Len(chain) = 1
    /\ chain[1].timestamp > 0
    /\ chain[1].index = 0
    /\ chain_file = save_chain(chain)

\* C15: after every construction (create-genesis or load) and every
\* successful mine the store holds exactly the in-memory chain, and a
\* ledger constructed again from the store has a chain of the same length
\* whose blocks equal the former ones field by field, stored hash and
\* merkle_root included.
PersistenceRoundTrip ==
    [][/\ (Blockchain_init \/ (mine /\ unconfirmed_transactions # <<>>))
             => chain_file' = save_chain(chain')
       /\ (Blockchain_init /\ Constructed)
             => /\ Len(chain') = Len(chain)
                /\ \A k \in 1..Len(chain) : SameFields(chain'[k], to_dict(chain[k]))
                /\ chain_file' = chain_file]_vars

\* a restart after a block was mined on top of the edited store: the
\* stale hash of the edited block is back as stored
PersistenceRoundTripWitness ==
    /\ call.op = "__init__"
    /\ Len(chain) = 3
    /\ chain[2].hash # compute_hash(chain[2])
    /\ chain[2].merkle_root # merkle_root(chain[2].transactions)
    /\ chain[3].previous_hash = chain[2].hash
    /\ chain_file = save_chain(chain)

====
